---- MODULE Spec2Model ----
(***************************************************************************)
(* Model of the hook-script manager (src/src/cli/install.rs) and of the    *)
(* git queries it relies on (src/src/git.rs).                              *)
(*                                                                         *)
(* The hooks directory is the state: for every hook type the file          *)
(* hooks_dir/<type> and its sibling hooks_dir/<type>.legacy.  A file is a  *)
(* record of its bytes (a sequence of tokens; the content-hash marker is   *)
(* one token, a token INVALID stands for bytes that are not valid UTF-8)   *)
(* and its permission bits.  install and uninstall are one action each,    *)
(* with the point at which a system call fails drawn as an input.          *)
(* clone_repo is a process of one action per git command; the functions of *)
(* git.rs that only interpret the answer of a command are operators,       *)
(* applied to inputs drawn from bounded sets.                              *)
(***************************************************************************)
EXTENDS Integers, Sequences, FiniteSets, TLC

VARIABLES hooksDir, hook, legacy, last, call, clone

vars == <<hooksDir, hook, legacy, last, call, clone>>

(***************************** bounds **************************************)

\* Longest list of hook types handed to hook-type resolution.
MaxTypes == 2

\* Longest explicit list of hook types an install or uninstall is run with.
MaxRunTypes == 1

\* Number of distinct foreign (marker-free, text) hook scripts a user may have.
NumForeign == 2

\* Longest captured standard output of `git config --get`, in characters.
MaxOut == 2

\* Longest captured standard output of a file listing (`-z`), in bytes.
MaxBytes == 3

\* Largest number of variables in the ambient environment.
MaxVars == 2

\* Largest number of commands run one after another when system calls fail.
MaxCommands == 3

(************************ hook types, file contents ************************)

PreCommit == "pre-commit"

PrePush == "pre-push"

HookTypes == {PreCommit, PrePush}

RECURSIVE SeqsUpTo(_, _)
SeqsUpTo(S, n) ==
    IF n = 0 THEN {<<>>}
    ELSE LET shorter == SeqsUpTo(S, n - 1)
         IN  shorter \cup {Append(s, x) : s \in shorter, x \in S}

CURRENT_HASH == "182c10f181da4464a3eec51b83331688"

PRIOR_HASHES == <<>>

\* A token standing for a byte sequence that is not valid UTF-8.
INVALID == "\\xff"

ARGS_PLACEHOLDER == "ARGS=(hook-impl)"

PRE_COMMIT_PLACEHOLDER == "PRE_COMMIT=\"pre-commit\""

HOOK_TMPL ==
    << "#!/usr/bin/env bash",
       "# File generated by pre-commit-rs: https://github.com/j178/pre-commit-rs",
       "# ID: ", CURRENT_HASH,
       ARGS_PLACEHOLDER,
       "HERE=\"$(cd \"$(dirname \"$0\")\" && pwd)\"",
       "ARGS+=(--hook-dir \"$HERE\" -- \"$@\")",
       PRE_COMMIT_PLACEHOLDER,
       "exec \"$PRE_COMMIT\" \"${ARGS[@]}\"" >>

\* std::env::current_exe(), simplified and displayed.
CurrentExe == "/usr/local/bin/pre-commit"

\* The resolved configuration file of a project that loaded.
ConfigFile == ".pre-commit-config.yaml"

NoFile == [exists |-> FALSE, bytes |-> <<>>, mode |-> 0]

RegularFile(b, m) == [exists |-> TRUE, bytes |-> b, mode |-> m]

ModeDefault == 420   \* 0o644: a file created by open(create) under umask 022

ModeExec == 493      \* 0o755

\* str::replace: every occurrence of the token `from` becomes the tokens `to`.
RECURSIVE Replace(_, _, _)
Replace(s, from, to) ==
    IF s = <<>> THEN <<>>
    ELSE (IF Head(s) = from THEN to ELSE <<Head(s)>>) \o Replace(Tail(s), from, to)

\* str::contains, on tokens.
Contains(content, token) == \E i \in DOMAIN content : content[i] = token

(*************************** git queries **********************************)

\* The characters char::is_whitespace accepts, among those of the model.
Whitespace == {" ", "\n"}

OutChars == {" ", "\n", "h"}

RECURSIVE TrimStart(_)
TrimStart(s) ==
    IF s # <<>> /\ Head(s) \in Whitespace THEN TrimStart(Tail(s)) ELSE s

RECURSIVE TrimEnd(_)
TrimEnd(s) ==
    IF s # <<>> /\ s[Len(s)] \in Whitespace
    THEN TrimEnd(SubSeq(s, 1, Len(s) - 1))
    ELSE s

\* str::trim
Trim(s) == TrimEnd(TrimStart(s))

\* The exit status of a child process: an exit code, or none (killed by a signal).
NoCode == -1

ExitCodes == {0, 1, 128, NoCode}

\* ExitStatus::success
StatusSuccess(status) == status = 0

\* What Cmd::output answers with check(false): the output of the child, whatever
\* its exit status, or an error when git was not found or could not be spawned.
Output(status, stdout) == [spawned |-> TRUE, status |-> status, stdout |-> stdout]

SpawnFailed == [spawned |-> FALSE, status |-> NoCode, stdout |-> <<>>]

\* Result<bool>
Ok(v) == [ok |-> TRUE, value |-> v]

Err == [ok |-> FALSE, value |-> FALSE]

\* A has_hooks_path_set that reports a path whenever git printed anything.
has_hooks_path_set_ignoring_status(output) ==
    IF ~output.spawned THEN Err ELSE Ok(Trim(output.stdout) # <<>>)

\* has_hooks_path_set, given what `git config --get core.hooksPath` answered.
has_hooks_path_set(output) ==
    IF ~output.spawned THEN Err
    ELSE IF StatusSuccess(output.status) THEN Ok(Trim(output.stdout) # <<>>)
    ELSE Ok(FALSE)

\* unwrap_err on a Result that is Ok: the thread panics.
Panic == [ok |-> FALSE, value |-> TRUE]

\* Cmd::check_status: an error for every status that is not a success, whatever
\* the `check` flag of the command (which only Cmd::output looks at).
check_status(status) == IF StatusSuccess(status) THEN Ok(TRUE) ELSE Err

\* An is_dirty that takes every failure of `git diff --quiet` for a dirty tree.
is_dirty_two_way(output) ==
    IF ~output.spawned THEN Err
    ELSE IF StatusSuccess(output.status) THEN Ok(FALSE)
    ELSE Ok(TRUE)

\* is_dirty, given what `git diff --quiet --no-ext-diff <path>` answered.
is_dirty(output) ==
    IF ~output.spawned THEN Err
    ELSE IF StatusSuccess(output.status) THEN Ok(FALSE)
    ELSE IF output.status = 1 THEN Ok(TRUE)
    ELSE IF check_status(output.status).ok THEN Panic
    ELSE Err

\* The bytes of a file listing: the NUL byte, a space, a letter, and a byte
\* that is not valid UTF-8.
NUL == "\\0"

ListBytes == {NUL, " ", "a", INVALID}

\* U+FFFD, which from_utf8_lossy puts in place of invalid bytes.
REPLACEMENT_CHARACTER == "\\u{FFFD}"

\* String::from_utf8_lossy
from_utf8_lossy(bytes) ==
    [i \in DOMAIN bytes |-> IF bytes[i] = INVALID THEN REPLACEMENT_CHARACTER ELSE bytes[i]]

\* str::trim_end_matches('\0')
RECURSIVE trim_end_matches_nul(_)
trim_end_matches_nul(s) ==
    IF s # <<>> /\ s[Len(s)] = NUL
    THEN trim_end_matches_nul(SubSeq(s, 1, Len(s) - 1))
    ELSE s

\* str::split('\0'): the pieces between the NULs, the empty ones included.
RECURSIVE split_nul(_)
split_nul(s) ==
    IF \A i \in DOMAIN s : s[i] # NUL THEN <<s>>
    ELSE LET k == CHOOSE i \in DOMAIN s : s[i] = NUL /\ \A j \in 1..(i - 1) : s[j] # NUL
         IN  <<SubSeq(s, 1, k - 1)>> \o split_nul(SubSeq(s, k + 1, Len(s)))

\* zsplit
zsplit(bytes) ==
    LET s == trim_end_matches_nul(from_utf8_lossy(bytes))
    IN  IF s = <<>> THEN <<>> ELSE split_nul(s)

\* The value of core.hooksPath in the git configuration: unset, or a string.
HooksPathUnset == [set |-> FALSE, value |-> <<>>]

HooksPathValue(v) == [set |-> TRUE, value |-> v]

\* What `git config --get core.hooksPath` answers: the value and a newline with
\* exit code 0, or nothing with exit code 1 when the key is unset.
GitConfigGet(hp) ==
    IF hp.set THEN Output(0, hp.value \o <<"\n">>) ELSE Output(1, <<>>)

(********************** the environment of a git command *******************)

\* Names of environment variables are sequences of characters, so that
\* str::starts_with is computed on them.
starts_with(k, prefix) ==
    Len(prefix) <= Len(k) /\ SubSeq(k, 1, Len(prefix)) = prefix

GIT_PREFIX == <<"G", "I", "T", "_">>

GIT_CONFIG_KEY_PREFIX == <<"G", "I", "T", "_", "C", "O", "N", "F", "I", "G", "_", "K", "E", "Y", "_">>

GIT_CONFIG_VALUE_PREFIX == <<"G", "I", "T", "_", "C", "O", "N", "F", "I", "G", "_", "V", "A", "L", "U", "E", "_">>

keep ==
    { <<"G", "I", "T", "_", "E", "X", "E", "C", "_", "P", "A", "T", "H">>,
      <<"G", "I", "T", "_", "S", "S", "H">>,
      <<"G", "I", "T", "_", "S", "S", "H", "_", "C", "O", "M", "M", "A", "N", "D">>,
      <<"G", "I", "T", "_", "S", "S", "L", "_", "C", "A", "I", "N", "F", "O">>,
      <<"G", "I", "T", "_", "S", "S", "L", "_", "N", "O", "_", "V", "E", "R", "I", "F", "Y">>,
      <<"G", "I", "T", "_", "C", "O", "N", "F", "I", "G", "_", "C", "O", "U", "N", "T">>,
      <<"G", "I", "T", "_", "H", "T", "T", "P", "_", "P", "R", "O", "X", "Y", "_", "A", "U", "T", "H", "M", "E", "T", "H", "O", "D">>,
      <<"G", "I", "T", "_", "A", "L", "L", "O", "W", "_", "P", "R", "O", "T", "O", "C", "O", "L">>,
      <<"G", "I", "T", "_", "A", "S", "K", "P", "A", "S", "S">> }

\* Other names an ambient environment may hold.
OtherNames ==
    { <<"P", "A", "T", "H">>,
      <<"G", "I", "T">>,
      <<"G", "I", "T", "H", "U", "B", "_", "T", "O", "K", "E", "N">>,
      <<"g", "i", "t", "_", "d", "i", "r">>,
      <<"G", "I", "T", "_", "D", "I", "R">>,
      <<"G", "I", "T", "_", "I", "N", "D", "E", "X", "_", "F", "I", "L", "E">>,
      <<"G", "I", "T", "_", "C", "O", "N", "F", "I", "G">>,
      <<"G", "I", "T", "_", "C", "O", "N", "F", "I", "G", "_", "K", "E", "Y">>,
      <<"G", "I", "T", "_", "C", "O", "N", "F", "I", "G", "_", "K", "E", "Y", "_", "0">>,
      <<"G", "I", "T", "_", "C", "O", "N", "F", "I", "G", "_", "V", "A", "L", "U", "E", "_", "0">>,
      <<"G", "I", "T", "_", "S", "S", "H", "_", "V", "A", "R", "I", "A", "N", "T">>,
      <<"M", "Y", "_", "G", "I", "T", "_", "S", "S", "H">> }

AmbientNames == keep \cup OtherNames

EnvValues == {"", "1"}

\* std::env::vars(): sets of at most n pairs (name, value), a name at most once.
RECURSIVE EnvsUpTo(_)
EnvsUpTo(n) ==
    IF n = 0 THEN {{}}
    ELSE LET smaller == EnvsUpTo(n - 1)
         IN  smaller \cup
             {e \cup {<<k, v>>} : e \in smaller, k \in AmbientNames, v \in EnvValues}

Environments ==
    {e \in EnvsUpTo(MaxVars) : \A p, q \in e : p[1] = q[1] => p = q}

\* A GIT_ENV without the allow-list of names.
GIT_ENV_without_keep(vars_) ==
    {p \in vars_ :
        \/ ~starts_with(p[1], GIT_PREFIX)
        \/ starts_with(p[1], GIT_CONFIG_KEY_PREFIX)
        \/ starts_with(p[1], GIT_CONFIG_VALUE_PREFIX)}

\* GIT_ENV, given std::env::vars().
GIT_ENV(vars_) ==
    {p \in vars_ :
        \/ ~starts_with(p[1], GIT_PREFIX)
        \/ starts_with(p[1], GIT_CONFIG_KEY_PREFIX)
        \/ starts_with(p[1], GIT_CONFIG_VALUE_PREFIX)
        \/ p[1] \in keep}

\* Cmd::new, Cmd::arg, Cmd::envs: a command is its program, its arguments in
\* order and the environment variables handed to it.
Cmd(program) == [ok |-> TRUE, program |-> program, args |-> <<>>, envs |-> {}]

CmdArg(cmd, a) == [cmd EXCEPT !.args = Append(@, a)]

CmdEnvs(cmd, e) == [cmd EXCEPT !.envs = @ \cup e]

GitNotFound == [ok |-> FALSE, program |-> "", args |-> <<>>, envs |-> {}]

\* git_cmd, given std::env::vars() and whether which::which found git.
git_cmd(vars_, found) ==
    IF ~found THEN GitNotFound
    ELSE CmdEnvs(CmdArg(CmdArg(Cmd("git"), "-c"), "core.useBuiltinFSMonitor=false"),
                 GIT_ENV(vars_))

(************************ hook-type resolution *****************************)

\* Project::from_config_file: the project failed to load, or loaded with its
\* default_install_hook_types (an Option).
ProjectErr == [ok |-> FALSE, some |-> FALSE, default_install_hook_types |-> <<>>]

ProjectOk(some, types) ==
    [ok |-> TRUE, some |-> some, default_install_hook_types |-> types]

TypeLists == SeqsUpTo(HookTypes, MaxTypes)

Projects ==
    {ProjectErr, ProjectOk(FALSE, <<>>)} \cup {ProjectOk(TRUE, l) : l \in TypeLists}

\* A get_hook_types without the final fallback to pre-commit.
get_hook_types_no_fallback(project, hook_types) ==
    IF hook_types = <<>>
    THEN IF project.ok /\ project.some THEN project.default_install_hook_types ELSE <<>>
    ELSE hook_types

\* get_hook_types, given what Project::from_config_file answered.
get_hook_types(project, hook_types) ==
    LET chosen ==
            IF hook_types = <<>>
            THEN IF project.ok
                 THEN (IF project.some THEN project.default_install_hook_types ELSE <<>>)
                 ELSE <<>>
            ELSE hook_types
    IN  IF chosen = <<>> THEN <<PreCommit>> ELSE chosen

(************************* the hook script *********************************)

HookTypeFlag(hook_type) == <<"--hook-type=", hook_type>>

\* The arguments of the generated script and the script itself
\* (install_hook_script, from `let mut args` to `let hook_script`).
HookArgs(config_file, hook_type, skip_on_missing_config) ==
    <<"hook-impl">> \o HookTypeFlag(hook_type)
        \o (IF config_file.some THEN <<"--config=", config_file.path>> ELSE <<>>)
        \o (IF skip_on_missing_config THEN <<"--skip-on-missing-config">> ELSE <<>>)

HookScript(config_file, hook_type, skip_on_missing_config) ==
    Replace(
        Replace(HOOK_TMPL, ARGS_PLACEHOLDER,
                <<"ARGS=(">> \o HookArgs(config_file, hook_type, skip_on_missing_config)
                    \o <<")">>),
        PRE_COMMIT_PLACEHOLDER, <<"PRE_COMMIT=", CurrentExe>>)

\* Option<&Path>
NoConfigFile == [some |-> FALSE, path |-> ""]

SomeConfigFile == [some |-> TRUE, path |-> ConfigFile]

\* project.as_ref().ok().map(Project::config_file)
ConfigFileOf(project) == IF project.ok THEN SomeConfigFile ELSE NoConfigFile

\* The scripts install can write, computed once.
HookScripts ==
    [c \in {NoConfigFile, SomeConfigFile}, t \in HookTypes, k \in BOOLEAN |->
        HookScript(c, t, k)]

\* fs::read_to_string: fails on bytes that are not valid UTF-8.
read_to_string(file) ==
    IF \A i \in DOMAIN file.bytes : file.bytes[i] # INVALID
    THEN [ok |-> TRUE, content |-> file.bytes]
    ELSE [ok |-> FALSE, content |-> <<>>]

Hashes == <<CURRENT_HASH>> \o PRIOR_HASHES

\* An is_our_script that recognizes no file.
is_our_script_never(file) ==
    LET r == read_to_string(file) IN [ok |-> r.ok, ours |-> FALSE]

\* is_our_script: Result<bool>
is_our_script(file) ==
    LET r == read_to_string(file)
    IN  [ok |-> r.ok,
         ours |-> r.ok /\ \E i \in DOMAIN Hashes : Contains(r.content, Hashes[i])]

(********************* install, for one hook type **************************)

\* Where a system call of install or uninstall fails: nowhere, or at one stage
\* of the step for the `at`-th hook type of the list.
\*   install:   "git"   git_cmd / has_hooks_path_set fails
\*              "mkdir" get_git_common_dir or create_dir_all fails
\*              "probe" try_exists or rename fails (nothing was changed)
\*              "open"  current_exe or open fails (after the rename)
\*              "write" write_all fails with nothing written
\*              "torn"  write_all fails after the marker was written
\*              "chmod" metadata or set_permissions fails
\*              "env"   the initialization of the hook environments fails
\*   uninstall: "probe" get_git_common_dir, try_exists or remove_file fails
\*              "restore" the check or the rename of the .legacy file fails
NoFault == [stage |-> "none", at |-> 0]

Fault(stage, at) == [stage |-> stage, at |-> at]

InstallFaults ==
    {NoFault, Fault("git", 0), Fault("mkdir", 0), Fault("env", 0)}
        \cup {Fault(s, i) : s \in {"probe", "open", "write", "torn", "chmod"},
                            i \in 1..MaxTypes}

UninstallFaults ==
    {NoFault} \cup {Fault(s, i) : s \in {"probe", "restore"}, i \in 1..MaxTypes}

StepResult(h, l, ok) == [hook |-> h, legacy |-> l, ok |-> ok]

\* The part of the script written when write_all fails after the marker.
MarkerEnd(script) ==
    CHOOSE k \in 1..Len(script) :
        /\ script[k] = CURRENT_HASH
        /\ \A j \in 1..(k - 1) : script[j] # CURRENT_HASH

\* A backup rule that ignores the overwrite flag.
NeedsBackup_ignoring_overwrite(file, overwrite) ==
    file.exists /\ ~is_our_script(file).ours

\* A backup rule that does not look at what the existing file is.
NeedsBackup_of_any_file(file, overwrite) ==
    file.exists /\ ~overwrite /\ is_our_script(file).ok

\* install_hook_script, lines 99-107: the existing file is renamed to .legacy.
NeedsBackup(file, overwrite) ==
    file.exists /\ ~overwrite /\ ~is_our_script(file).ours

\* install_hook_script on hooks_dir/<hook_type> (h) and its .legacy sibling (l).
install_hook_script(h, l, config_file, hook_type, overwrite, skip_on_missing_config, fault) ==
    LET unreadable == h.exists /\ ~overwrite /\ ~is_our_script(h).ok
        move == NeedsBackup(h, overwrite)
        h1 == IF move THEN NoFile ELSE h
        l1 == IF move THEN h ELSE l
        script == HookScripts[config_file, hook_type, skip_on_missing_config]
        opened == RegularFile(<<>>, IF h1.exists THEN h1.mode ELSE ModeDefault)
        torn == [opened EXCEPT !.bytes = SubSeq(script, 1, MarkerEnd(script))]
        written == [opened EXCEPT !.bytes = script]
        chmodded == [written EXCEPT !.mode = ModeExec]
    IN  IF fault = "probe" \/ unreadable THEN StepResult(h, l, FALSE)
        ELSE IF fault = "open" THEN StepResult(h1, l1, FALSE)
        ELSE IF fault = "write" THEN StepResult(opened, l1, FALSE)
        ELSE IF fault = "torn" THEN StepResult(torn, l1, FALSE)
        ELSE IF fault = "chmod" THEN StepResult(written, l1, FALSE)
        ELSE StepResult(chmodded, l1, TRUE)

(******************** uninstall, for one hook type *************************)

\* An uninstall step that restores the .legacy file and forgets to remove it.
UninstallOne_copy_back(h, l, fault) ==
    IF fault = "probe" THEN StepResult(h, l, FALSE)
    ELSE IF ~h.exists THEN StepResult(h, l, TRUE)
    ELSE IF ~is_our_script(h).ok THEN StepResult(h, l, FALSE)
    ELSE IF ~is_our_script(h).ours THEN StepResult(h, l, TRUE)
    ELSE IF fault = "restore" THEN StepResult(NoFile, l, FALSE)
    ELSE IF l.exists THEN StepResult(l, l, TRUE)
    ELSE StepResult(NoFile, l, TRUE)

\* An uninstall step that leaves the manager's script in place.
UninstallOne_keep_script(h, l, fault) ==
    IF fault = "probe" THEN StepResult(h, l, FALSE)
    ELSE IF ~h.exists THEN StepResult(h, l, TRUE)
    ELSE IF ~is_our_script(h).ok THEN StepResult(h, l, FALSE)
    ELSE StepResult(h, l, TRUE)

\* The body of uninstall's loop on hooks_dir/<hook_type> (h) and its .legacy
\* sibling (l).
UninstallOne(h, l, fault) ==
    IF fault = "probe" THEN StepResult(h, l, FALSE)
    ELSE IF ~h.exists THEN StepResult(h, l, TRUE)
    ELSE IF ~is_our_script(h).ok THEN StepResult(h, l, FALSE)
    ELSE IF ~is_our_script(h).ours THEN StepResult(h, l, TRUE)
    ELSE IF fault = "restore" THEN StepResult(NoFile, l, FALSE)
    ELSE IF l.exists THEN StepResult(l, NoFile, TRUE)
    ELSE StepResult(NoFile, l, TRUE)

(*************************** the two commands ******************************)

\* The hooks directory as a value.
Fs(d, h, l) == [hooksDir |-> d, hook |-> h, legacy |-> l]

CurFs == Fs(hooksDir, hook, legacy)

FaultAt(fault, i) == IF fault.at = i THEN fault.stage ELSE "none"

\* An install loop that goes on with the next hook type after an error, and
\* reports the error at the end.
RECURSIVE InstallLoop_keeps_going(_, _, _, _, _, _, _)
InstallLoop_keeps_going(fs, types, i, config_file, overwrite, skip, fault) ==
    IF i > Len(types)
    THEN [fs |-> fs, ok |-> fault.at \notin 1..Len(types),
          done |-> IF fault.at \in 1..Len(types) THEN fault.at - 1 ELSE Len(types)]
    ELSE LET t == types[i]
             r == install_hook_script(fs.hook[t], fs.legacy[t], config_file, t,
                                      overwrite, skip, FaultAt(fault, i))
             fs1 == [fs EXCEPT !.hook[t] = r.hook, !.legacy[t] = r.legacy]
         IN  InstallLoop_keeps_going(fs1, types, i + 1, config_file, overwrite, skip, fault)

\* install, lines 43-52: the hook types one after another, stopping at the
\* first error.
RECURSIVE InstallLoop(_, _, _, _, _, _, _)
InstallLoop(fs, types, i, config_file, overwrite, skip, fault) ==
    IF i > Len(types) THEN [fs |-> fs, ok |-> TRUE, done |-> Len(types)]
    ELSE LET t == types[i]
             r == install_hook_script(fs.hook[t], fs.legacy[t], config_file, t,
                                      overwrite, skip, FaultAt(fault, i))
             fs1 == [fs EXCEPT !.hook[t] = r.hook, !.legacy[t] = r.legacy]
         IN  IF r.ok
             THEN InstallLoop(fs1, types, i + 1, config_file, overwrite, skip, fault)
             ELSE [fs |-> fs1, ok |-> FALSE, done |-> i - 1]

Outcome(fs, result, types, done, envs) ==
    [fs |-> fs, result |-> result, types |-> types, done |-> done, envs |-> envs]

\* install, lines 36-63: after the check of core.hooksPath.
InstallProceed(fs, project, hook_types, install_hooks, overwrite, allow_missing_config, fault) ==
    LET types == get_hook_types(project, hook_types)
        made == [fs EXCEPT !.hooksDir = TRUE]
        loop == InstallLoop(made, types, 1, ConfigFileOf(project), overwrite,
                            allow_missing_config, fault)
    IN  IF fault.stage = "mkdir" THEN Outcome(fs, "Err", types, 0, FALSE)
        ELSE IF ~loop.ok THEN Outcome(loop.fs, "Err", types, loop.done, FALSE)
        ELSE IF ~install_hooks
        THEN Outcome(loop.fs, "Success", types, loop.done, FALSE)
        ELSE IF ~project.ok \/ fault.stage = "env"
        THEN Outcome(loop.fs, "Err", types, loop.done, FALSE)
        ELSE Outcome(loop.fs, "Success", types, loop.done, TRUE)

\* The run of `git config --get core.hooksPath` by install.
HooksPathRun(hp, fault) ==
    IF fault.stage = "git" THEN SpawnFailed ELSE GitConfigGet(hp)

\* An install that looks at core.hooksPath only after it has installed.
install_check_last(fs, project, hook_types, install_hooks, overwrite, allow_missing_config, hp, fault) ==
    LET set == has_hooks_path_set(HooksPathRun(hp, fault))
        r == InstallProceed(fs, project, hook_types, install_hooks, overwrite,
                            allow_missing_config, fault)
    IN  IF ~set.ok THEN Outcome(fs, "Err", <<>>, 0, FALSE)
        ELSE IF set.value THEN Outcome(r.fs, "Failure", <<>>, 0, r.envs)
        ELSE r

\* install
install(fs, project, hook_types, install_hooks, overwrite, allow_missing_config, hp, fault) ==
    LET set == has_hooks_path_set(HooksPathRun(hp, fault))
    IN  IF ~set.ok THEN Outcome(fs, "Err", <<>>, 0, FALSE)
        ELSE IF set.value THEN Outcome(fs, "Failure", <<>>, 0, FALSE)
        ELSE InstallProceed(fs, project, hook_types, install_hooks, overwrite,
                            allow_missing_config, fault)

\* uninstall, lines 198-232: the hook types one after another.
RECURSIVE UninstallLoop(_, _, _, _)
UninstallLoop(fs, types, i, fault) ==
    IF i > Len(types) THEN [fs |-> fs, ok |-> TRUE, done |-> Len(types)]
    ELSE LET t == types[i]
             r == UninstallOne(fs.hook[t], fs.legacy[t], FaultAt(fault, i))
             fs1 == [fs EXCEPT !.hook[t] = r.hook, !.legacy[t] = r.legacy]
         IN  IF r.ok
             THEN UninstallLoop(fs1, types, i + 1, fault)
             ELSE [fs |-> fs1, ok |-> FALSE, done |-> i - 1]

\* uninstall
uninstall(fs, project, hook_types, fault) ==
    LET types == get_hook_types(project, hook_types)
        loop == UninstallLoop(fs, types, 1, fault)
    IN  Outcome(loop.fs, IF loop.ok THEN "Success" ELSE "Err", types, loop.done, FALSE)

(****************************** the system *********************************)

ForeignScripts ==
    {RegularFile(<<"#!/bin/sh", "echo", ToString(n)>>, ModeExec) : n \in 1..NumForeign}

\* A compiled hook: bytes that are not valid UTF-8, without a marker.
BinaryHook == RegularFile(<<INVALID, "ELF">>, ModeExec)

\* A script of the user's that carries the marker (an edited copy of the
\* manager's script).
EditedCopy == RegularFile(<<"#!/bin/sh", "# ID: ", CURRENT_HASH, "custom">>, ModeExec)

UserFiles == ForeignScripts \cup {BinaryHook, EditedCopy}

\* What the commands are run with: the value of core.hooksPath, the project
\* configuration, the explicit hook types.
RunHooksPaths == {HooksPathUnset, HooksPathValue(<<"h">>)}

RunProjects == {ProjectErr, ProjectOk(TRUE, <<PrePush, PreCommit>>)}

RunTypeLists == SeqsUpTo(HookTypes, MaxRunTypes)

Args(project, hook_types, install_hooks, overwrite, allow_missing_config, hp) ==
    [project |-> project, hook_types |-> hook_types, install_hooks |-> install_hooks,
     overwrite |-> overwrite, allow_missing_config |-> allow_missing_config, hp |-> hp]

NoArgs == Args(ProjectErr, <<>>, FALSE, FALSE, FALSE, HooksPathUnset)

NoOutcome == Outcome(Fs(FALSE, <<>>, <<>>), "none", <<>>, 0, FALSE)

\* The last command run (op "install" or "uninstall"), its arguments, the hooks
\* directory it found and what it answered; op "user" after a change made by
\* the user, op "none" at the start.
Last(op, args, pre, out) ==
    [op |-> op, args |-> args, pre |-> pre, result |-> out.result,
     types |-> out.types, done |-> out.done, envs |-> out.envs]

\* No clone_repo is running.
NoClone == [phase |-> "none"]

\* No function is being called on its own.
NoCall == [fn |-> "none", arg |-> <<>>, ret |-> <<>>, returned |-> FALSE]

Init ==
    /\ hooksDir \in BOOLEAN
    /\ hook \in [HookTypes -> {NoFile} \cup UserFiles]
    /\ hooksDir = FALSE => \A t \in HookTypes : ~hook[t].exists
    /\ legacy = [t \in HookTypes |-> NoFile]
    /\ last = Last("none", NoArgs, CurFs, NoOutcome)
    /\ call = NoCall
    /\ clone = NoClone

\* A command has run on the hooks directory.
Ran(op, args, out) ==
    /\ hooksDir' = out.fs.hooksDir
    /\ hook' = out.fs.hook
    /\ legacy' = out.fs.legacy
    /\ last' = Last(op, args, CurFs, out)
    /\ UNCHANGED <<call, clone>>

\* The user has changed the hooks directory.
Edited(h) ==
    /\ hooksDir' = TRUE
    /\ hook' = h
    /\ UNCHANGED legacy
    /\ last' = Last("user", NoArgs, Fs(TRUE, h, legacy), NoOutcome)
    /\ UNCHANGED <<call, clone>>

Install ==
    \E project \in RunProjects, hook_types \in RunTypeLists, hp \in RunHooksPaths,
       install_hooks \in BOOLEAN, overwrite \in BOOLEAN :
        /\ call = NoCall
        /\ Ran("install",
               Args(project, hook_types, install_hooks, overwrite, FALSE, hp),
               install(CurFs, project, hook_types, install_hooks, overwrite, FALSE,
                       hp, NoFault))

Uninstall ==
    \E project \in RunProjects, hook_types \in RunTypeLists :
        /\ call = NoCall
        /\ Ran("uninstall",
               Args(project, hook_types, FALSE, FALSE, FALSE, HooksPathUnset),
               uninstall(CurFs, project, hook_types, NoFault))

\* The user puts a script of their own at hooks_dir/<type>.
UserWrite ==
    \E t \in HookTypes, f \in UserFiles :
        /\ call = NoCall
        /\ hook[t] # f
        /\ Edited([hook EXCEPT ![t] = f])

\* The user deletes hooks_dir/<type>.
UserRemove ==
    \E t \in HookTypes :
        /\ call = NoCall
        /\ hook[t].exists
        /\ Edited([hook EXCEPT ![t] = NoFile])

Next == Install \/ Uninstall \/ UserWrite \/ UserRemove

Spec == Init /\ [][Next]_vars

(*********************** the functions on their own ************************)

\* A call of one function with inputs drawn from bounded sets, and its return.
Call(fn, arg) == [fn |-> fn, arg |-> arg, ret |-> <<>>, returned |-> FALSE]

Outputs ==
    {SpawnFailed} \cup {Output(c, o) : c \in ExitCodes, o \in SeqsUpTo(OutChars, MaxOut)}

Resolutions == [project : Projects, hook_types : TypeLists]

EmptyFs == Fs(FALSE, [t \in HookTypes |-> NoFile], [t \in HookTypes |-> NoFile])

Calls ==
    {Call(fn, o) : fn \in {"has_hooks_path_set", "is_dirty"}, o \in Outputs}
        \cup {Call(fn, r) : fn \in {"get_hook_types", "install", "uninstall"},
                            r \in Resolutions}
        \cup {Call("zsplit", b) : b \in SeqsUpTo(ListBytes, MaxBytes)}
        \cup {Call("git_cmd", [vars_ |-> e, found |-> f]) :
                    e \in Environments, f \in BOOLEAN}

InitFn ==
    /\ hooksDir = FALSE
    /\ hook = [t \in HookTypes |-> NoFile]
    /\ legacy = [t \in HookTypes |-> NoFile]
    /\ last = Last("none", NoArgs, CurFs, NoOutcome)
    /\ call \in Calls
    /\ clone = NoClone

Return(v) ==
    /\ ~call.returned
    /\ call' = [call EXCEPT !.ret = v, !.returned = TRUE]
    /\ UNCHANGED <<hooksDir, hook, legacy, last, clone>>

CallHasHooksPathSet ==
    /\ call.fn = "has_hooks_path_set"
    /\ Return(has_hooks_path_set(call.arg))

CallGetHookTypes ==
    /\ call.fn = "get_hook_types"
    /\ Return(get_hook_types(call.arg.project, call.arg.hook_types))

CallIsDirty ==
    /\ call.fn = "is_dirty"
    /\ Return(is_dirty(call.arg))

CallZsplit ==
    /\ call.fn = "zsplit"
    /\ Return(zsplit(call.arg))

CallGitCmd ==
    /\ call.fn = "git_cmd"
    /\ Return(git_cmd(call.arg.vars_, call.arg.found))

\* The hook types an install acts on.
CallInstall ==
    /\ call.fn = "install"
    /\ Return(install(EmptyFs, call.arg.project, call.arg.hook_types, FALSE, FALSE,
                      FALSE, HooksPathUnset, NoFault).types)

\* The hook types an uninstall acts on.
CallUninstall ==
    /\ call.fn = "uninstall"
    /\ Return(uninstall(EmptyFs, call.arg.project, call.arg.hook_types, NoFault).types)

NextFn ==
    \/ CallHasHooksPathSet
    \/ CallGetHookTypes
    \/ CallInstall
    \/ CallUninstall
    \/ CallIsDirty
    \/ CallZsplit
    \/ CallGitCmd

SpecFn == InitFn /\ [][NextFn]_vars

(****************** the commands, with system calls that fail **************)

\* The hook type of the i-th step of a command moved its file to .legacy.
Moved(pre, post, t) ==
    /\ pre.hook[t].exists
    /\ post.hook[t] # pre.hook[t]
    /\ post.legacy[t] = pre.hook[t]

\* What the history keeps besides the last command: the system call that
\* failed in it, the number of commands run, and for every hook type the
\* script that a failed install has just left at .legacy (it is remembered
\* through the one successful install that follows).
Stranded(op, pre, out) ==
    [t \in HookTypes |->
        IF op = "install" /\ out.result = "Err"
        THEN (IF Moved(pre, out.fs, t) THEN pre.hook[t] ELSE NoFile)
        ELSE IF op = "install" /\ out.result = "Success"
                /\ last.op = "install" /\ last.result = "Err"
        THEN last.stranded[t]
        ELSE NoFile]

LastFaulty(op, args, pre, out, fault) ==
    [op |-> op, args |-> args, pre |-> pre, result |-> out.result,
     types |-> out.types, done |-> out.done, envs |-> out.envs,
     fault |-> fault, n |-> last.n + 1, stranded |-> Stranded(op, pre, out)]

\* The hooks directories the commands start from: the user's own scripts.
InitFaults ==
    /\ hooksDir \in BOOLEAN
    /\ hook \in [HookTypes -> {NoFile} \cup ForeignScripts]
    /\ hooksDir = FALSE => \A t \in HookTypes : ~hook[t].exists
    /\ legacy = [t \in HookTypes |-> NoFile]
    /\ last = [op |-> "none", args |-> NoArgs, pre |-> CurFs, result |-> "none",
               types |-> <<>>, done |-> 0, envs |-> FALSE,
               fault |-> NoFault, n |-> 0, stranded |-> [t \in HookTypes |-> NoFile]]
    /\ call = NoCall
    /\ clone = NoClone

RanFaulty(op, args, out, fault) ==
    /\ last.n < MaxCommands
    /\ hooksDir' = out.fs.hooksDir
    /\ hook' = out.fs.hook
    /\ legacy' = out.fs.legacy
    /\ last' = LastFaulty(op, args, CurFs, out, fault)
    /\ UNCHANGED <<call, clone>>

\* The project these commands run in: its configuration loads.
FaultProjects == {ProjectOk(TRUE, <<PrePush, PreCommit>>)}

\* install, with at most one system call that fails.
InstallFaulty ==
    \E project \in FaultProjects, hook_types \in RunTypeLists, fault \in InstallFaults,
       install_hooks \in BOOLEAN, overwrite \in BOOLEAN :
        /\ install_hooks => fault.stage \in {"none", "env"}
        /\ RanFaulty("install",
                     Args(project, hook_types, install_hooks, overwrite, FALSE,
                          HooksPathUnset),
                     install(CurFs, project, hook_types, install_hooks, overwrite,
                             FALSE, HooksPathUnset, fault),
                     fault)

\* uninstall, with at most one system call that fails.
UninstallFaulty ==
    \E project \in FaultProjects, hook_types \in RunTypeLists, fault \in UninstallFaults :
        /\ call = NoCall
        /\ RanFaulty("uninstall",
                     Args(project, hook_types, FALSE, FALSE, FALSE, HooksPathUnset),
                     uninstall(CurFs, project, hook_types, fault),
                     fault)

NextFaults == InstallFaulty \/ UninstallFaulty

SpecFaults == InitFaults /\ [][NextFaults]_vars

(************************* repository acquisition **************************)

\* The revisions and the remote a repository is acquired from.
Revs == {"v1.0.0", "main", "0a1b2c3"}

Urls == {"https://example.com/hooks.git", "/srv/git/hooks.git"}

\* The git commands of init_repo, shallow_clone and full_clone, in order.
Commands ==
    [init |-> <<"init --template=", "remote add origin">>,
     shallow |-> <<"fetch origin <rev> --depth=1", "checkout FETCH_HEAD",
                   "submodule update --init --recursive --depth=1">>,
     full |-> <<"fetch origin --tags", "checkout <rev>",
                "submodule update --init --recursive">>]

\* A function made of n commands, each run with check(true) and followed by
\* `?`: what it does after its i-th command, which succeeded or not.
Sequential(i, n, ok) == IF ~ok THEN "Err" ELSE IF i < n THEN "next" ELSE "Ok"

init_repo(i, ok) == Sequential(i, Len(Commands.init), ok)

shallow_clone(i, ok) == Sequential(i, Len(Commands.shallow), ok)

\* A full_clone that does not look at the result of its fetch.
full_clone_unchecked_fetch(i, ok) ==
    IF i = 1 THEN "next" ELSE Sequential(i, Len(Commands.full), ok)

full_clone(i, ok) == Sequential(i, Len(Commands.full), ok)

\* Where clone_repo stands: before the i-th command of a phase, or returned.
At(phase, i) == [phase |-> phase, i |-> i, result |-> "pending"]

Returned(r) == [phase |-> "done", i |-> 0, result |-> r]

\* A clone_repo that runs the full clone whatever the shallow clone answered.
clone_repo_always_full(phase, i, ok) ==
    IF phase = "init"
    THEN LET r == init_repo(i, ok)
         IN  IF r = "Err" THEN Returned("Err")
             ELSE IF r = "Ok" THEN At("shallow", 1) ELSE At("init", i + 1)
    ELSE IF phase = "shallow"
    THEN LET r == shallow_clone(i, ok)
         IN  IF r = "next" THEN At("shallow", i + 1) ELSE At("full", 1)
    ELSE LET r == full_clone(i, ok)
         IN  IF r = "next" THEN At("full", i + 1) ELSE Returned(r)

\* A clone_repo that returns the error of the shallow clone.
clone_repo_no_fallback(phase, i, ok) ==
    IF phase = "init"
    THEN LET r == init_repo(i, ok)
         IN  IF r = "Err" THEN Returned("Err")
             ELSE IF r = "Ok" THEN At("shallow", 1) ELSE At("init", i + 1)
    ELSE IF phase = "shallow"
    THEN LET r == shallow_clone(i, ok)
         IN  IF r = "next" THEN At("shallow", i + 1) ELSE Returned(r)
    ELSE LET r == full_clone(i, ok)
         IN  IF r = "next" THEN At("full", i + 1) ELSE Returned(r)

\* clone_repo: where it goes after the i-th command of a phase.
clone_repo(phase, i, ok) ==
    IF phase = "init"
    THEN LET r == init_repo(i, ok)
         IN  IF r = "Err" THEN Returned("Err")
             ELSE IF r = "Ok" THEN At("shallow", 1) ELSE At("init", i + 1)
    ELSE IF phase = "shallow"
    THEN LET r == shallow_clone(i, ok)
         IN  IF r = "Err" THEN At("full", 1)
             ELSE IF r = "Ok" THEN Returned("Ok") ELSE At("shallow", i + 1)
    ELSE LET r == full_clone(i, ok)
         IN  IF r = "next" THEN At("full", i + 1) ELSE Returned(r)

\* The working copy at `path`: whether it is a repository, its remote, what
\* FETCH_HEAD names, whether the history of the remote is there, and what is
\* checked out.
NoWorkingCopy ==
    [repo |-> FALSE, origin |-> "", fetch_head |-> "", tags |-> FALSE, head |-> ""]

\* What a git command that succeeded has done to the working copy.
Git(phase, i, url, rev, wc) ==
    CASE phase = "init" /\ i = 1 -> [wc EXCEPT !.repo = TRUE]
      [] phase = "init" /\ i = 2 -> [wc EXCEPT !.origin = url]
      [] phase = "shallow" /\ i = 1 -> [wc EXCEPT !.fetch_head = rev]
      [] phase = "shallow" /\ i = 2 -> [wc EXCEPT !.head = wc.fetch_head]
      [] phase = "full" /\ i = 1 -> [wc EXCEPT !.fetch_head = "origin", !.tags = TRUE]
      [] phase = "full" /\ i = 2 -> [wc EXCEPT !.head = rev]
      [] OTHER -> wc

\* Whether git can succeed at all: a checkout needs the commit it names.
CanSucceed(phase, i, rev, wc) ==
    CASE phase = "shallow" /\ i = 2 -> wc.fetch_head # ""
      [] phase = "full" /\ i = 2 -> wc.tags \/ wc.fetch_head = rev \/ wc.head = rev
      [] OTHER -> TRUE

\* How a command ends: with exit 0, with an error of check(true), or without
\* having run when which::which found no git.
RunOutcomes == {"ok", "failed", "not spawned"}

StartClone(url, rev, found) ==
    [phase |-> "init", i |-> 1, result |-> "pending", url |-> url, rev |-> rev,
     found |-> found, log |-> <<>>, warned |-> 0, wc |-> NoWorkingCopy]

InitClone ==
    /\ hooksDir = FALSE
    /\ hook = [t \in HookTypes |-> NoFile]
    /\ legacy = [t \in HookTypes |-> NoFile]
    /\ last = Last("none", NoArgs, CurFs, NoOutcome)
    /\ call = NoCall
    /\ clone \in {StartClone(url, rev, found) : url \in Urls, rev \in Revs, found \in BOOLEAN}

\* clone_repo runs the i-th command of a phase and goes on.
Run(phase, i) ==
    /\ \E outcome \in RunOutcomes :
        /\ (outcome = "not spawned") <=> ~clone.found
        /\ outcome = "ok" => CanSucceed(phase, i, clone.rev, clone.wc)
        /\ LET ok == outcome = "ok"
               to == clone_repo(phase, i, ok)
           IN  clone' =
                 [clone EXCEPT
                    !.phase = to.phase, !.i = to.i, !.result = to.result,
                    !.log = Append(@, [phase |-> phase, cmd |-> Commands[phase][i],
                                       outcome |-> outcome]),
                    !.warned = IF phase = "shallow" /\ to.phase = "full" THEN @ + 1 ELSE @,
                    !.wc = IF ok THEN Git(phase, i, clone.url, clone.rev, @) ELSE @]
    /\ UNCHANGED <<hooksDir, hook, legacy, last, call>>

GitInit ==
    /\ clone.phase = "init"
    /\ clone.i = 1
    /\ Run("init", 1)

RemoteAdd ==
    /\ clone.phase = "init"
    /\ clone.i = 2
    /\ Run("init", 2)

ShallowFetch ==
    /\ clone.phase = "shallow"
    /\ clone.i = 1
    /\ Run("shallow", 1)

ShallowCheckout ==
    /\ clone.phase = "shallow"
    /\ clone.i = 2
    /\ Run("shallow", 2)

ShallowSubmodules ==
    /\ clone.phase = "shallow"
    /\ clone.i = 3
    /\ Run("shallow", 3)

FullFetch ==
    /\ clone.phase = "full"
    /\ clone.i = 1
    /\ Run("full", 1)

FullCheckout ==
    /\ clone.phase = "full"
    /\ clone.i = 2
    /\ Run("full", 2)

FullSubmodules ==
    /\ clone.phase = "full"
    /\ clone.i = 3
    /\ Run("full", 3)

NextClone ==
    \/ GitInit
    \/ RemoteAdd
    \/ ShallowFetch
    \/ ShallowCheckout
    \/ ShallowSubmodules
    \/ FullFetch
    \/ FullCheckout
    \/ FullSubmodules

SpecClone == InitClone /\ [][NextClone]_vars

(******************************* claims ************************************)

\* A file is manager-owned iff its content contains the current marker or a
\* historical one; a file that exists and is not manager-owned is unmanaged.
ManagerOwned(file) ==
    /\ file.exists
    /\ \E i \in DOMAIN file.bytes :
            file.bytes[i] = CURRENT_HASH \/ \E j \in DOMAIN PRIOR_HASHES : file.bytes[i] = PRIOR_HASHES[j]

Unmanaged(file) == file.exists /\ ~ManagerOwned(file)

\* The command recorded in l reached its step for hook type t / completed it.
Reached(l, t) == \E i \in 1..Len(l.types) : i <= l.done + 1 /\ l.types[i] = t

Processed(l, t) == \E i \in 1..Len(l.types) : i <= l.done /\ l.types[i] = t

\* The bytes b are on disk for hook type t, at hooks_dir/<t> or at its .legacy.
OnDisk(t, b) ==
    \/ hook[t].exists /\ hook[t].bytes = b
    \/ legacy[t].exists /\ legacy[t].bytes = b

\* C1: an install without overwrite that finds unmanaged content B at
\* hooks_dir/<type> and no .legacy file leaves B at hooks_dir/<type>.legacy and
\* a manager-owned script at hooks_dir/<type>; the uninstall of that type that
\* follows leaves B at hooks_dir/<type> and no .legacy file.
C1_BackupRoundTrip ==
    [][\A t \in HookTypes :
        /\ ( /\ last'.op = "install"
             /\ ~last'.args.overwrite
             /\ Reached(last', t)
             /\ Unmanaged(hook[t])
             /\ ~legacy[t].exists )
           => /\ legacy'[t] = hook[t]
              /\ ManagerOwned(hook'[t])
        /\ ( /\ last.op = "install"
             /\ ~last.args.overwrite
             /\ Processed(last, t)
             /\ Unmanaged(last.pre.hook[t])
             /\ ~last.pre.legacy[t].exists
             /\ last'.op = "uninstall"
             /\ Reached(last', t) )
           => /\ hook'[t] = last.pre.hook[t]
              /\ ~legacy'[t].exists
      ]_vars

\* C2: neither an install without overwrite nor an uninstall destroys an
\* unmanaged script: the bytes of every unmanaged file found at hooks_dir/<type>
\* and of every file found at hooks_dir/<type>.legacy are still on disk
\* afterwards, at one of the two paths.
C2_NonDestructive ==
    (last.op = "uninstall" \/ (last.op = "install" /\ ~last.args.overwrite))
        => \A t \in HookTypes :
            /\ Unmanaged(last.pre.hook[t]) => OnDisk(t, last.pre.hook[t].bytes)
            /\ last.pre.legacy[t].exists => OnDisk(t, last.pre.legacy[t].bytes)

\* C3: an install (with any overwrite flag) that finds neither hooks_dir/<type>
\* nor its .legacy, followed by the uninstall of that type, leaves neither file.
C3_FreshRoundTrip ==
    [][\A t \in HookTypes :
        ( /\ last.op = "install"
          /\ Processed(last, t)
          /\ ~last.pre.hook[t].exists
          /\ ~last.pre.legacy[t].exists
          /\ last'.op = "uninstall"
          /\ Processed(last', t) )
        => /\ ~hook'[t].exists
           /\ ~legacy'[t].exists
      ]_vars

\* The round trip of C3 has happened: an uninstall found the manager's script
\* that an install had put where there was no file, and removed it.
C3_Witness ==
    \E t \in HookTypes :
        /\ last.op = "uninstall"
        /\ Processed(last, t)
        /\ last.pre.hook[t] = RegularFile(HookScript(NoConfigFile, t, FALSE), ModeExec)
        /\ ~last.pre.legacy[t].exists
        /\ ~hook[t].exists
        /\ ~legacy[t].exists

\* C4: a second install with the same parameters and overwrite = false, run
\* right after the first, changes nothing: the hooks directory holds the same
\* files with the same contents, and no .legacy file is created or changed.
C4_InstallIdempotent ==
    [][( /\ last.op = "install"
         /\ last'.op = "install"
         /\ last'.args = last.args
         /\ ~last.args.overwrite )
       => /\ hooksDir' = hooksDir
          /\ hook' = hook
          /\ legacy' = legacy
          /\ last'.result = last.result
      ]_vars

\* The second install of C4 has happened: it found the manager's script beside a
\* .legacy backup, and left both as they were.
C4_Witness ==
    \E t \in HookTypes :
        /\ last.op = "install"
        /\ ~last.args.overwrite
        /\ last.result = "Success"
        /\ Processed(last, t)
        /\ ManagerOwned(last.pre.hook[t])
        /\ last.pre.hook[t] = hook[t]
        /\ Unmanaged(last.pre.legacy[t])
        /\ legacy[t] = last.pre.legacy[t]

\* C5: an uninstall of hook types whose file is absent, or present without any
\* marker, returns success and leaves the hooks directory as it found it, the
\* .legacy files included.
C5_UninstallSkips ==
    ( /\ last.op = "uninstall"
      /\ \A i \in DOMAIN last.types : ~ManagerOwned(last.pre.hook[last.types[i]]) )
    => /\ last.result = "Success"
       /\ CurFs = last.pre

\* C6: an install with overwrite = true that finds a file at hooks_dir/<type>
\* replaces it with the manager's script, whatever the file was, and leaves
\* hooks_dir/<type>.legacy as it was: not created, not modified, not removed.
C6_Overwrite ==
    \A t \in HookTypes :
        ( /\ last.op = "install"
          /\ last.args.overwrite
          /\ Reached(last, t)
          /\ last.pre.hook[t].exists )
        => /\ ManagerOwned(hook[t])
           /\ hook[t].bytes = HookScript(ConfigFileOf(last.args.project), t,
                                         last.args.allow_missing_config)
           /\ legacy[t] = last.pre.legacy[t]

\* An install with overwrite = true has replaced an unmanaged script, beside a
\* .legacy backup that it left alone.
C6_Witness ==
    \E t \in HookTypes :
        /\ last.op = "install"
        /\ last.args.overwrite
        /\ Processed(last, t)
        /\ Unmanaged(last.pre.hook[t])
        /\ last.pre.legacy[t].exists
        /\ ManagerOwned(hook[t])
        /\ legacy[t] = last.pre.legacy[t]

\* C7: from a hooks directory without .legacy files, a .legacy file comes to
\* exist, or changes, only by an install that found an unmanaged file at
\* hooks_dir/<type> and renamed it there; it stays until an uninstall renames it
\* back; and an uninstall that removed a manager-owned hook ends with no .legacy
\* file for that type.
C7_LegacyOrigin ==
    [][\A t \in HookTypes :
        /\ (legacy'[t].exists /\ legacy'[t] # legacy[t])
           => /\ last'.op = "install"
              /\ Unmanaged(hook[t])
              /\ legacy'[t] = hook[t]
        /\ (legacy[t].exists /\ ~legacy'[t].exists)
           => /\ last'.op = "uninstall"
              /\ hook'[t] = legacy[t]
        /\ ( /\ last'.op = "uninstall"
             /\ Processed(last', t)
             /\ ManagerOwned(hook[t]) )
           => ~legacy'[t].exists
      ]_vars

\* An uninstall has renamed a .legacy file back over the manager's script.
C7_Witness ==
    \E t \in HookTypes :
        /\ last.op = "uninstall"
        /\ last.result = "Success"
        /\ ManagerOwned(last.pre.hook[t])
        /\ last.pre.legacy[t].exists
        /\ hook[t] = last.pre.legacy[t]
        /\ ~legacy[t].exists

\* The three-level fallback of hook-type resolution, as the specification
\* states it.
Resolved(project, explicit) ==
    CASE explicit # <<>> -> explicit
      [] explicit = <<>> /\ project.ok /\ project.some
            /\ project.default_install_hook_types # <<>>
         -> project.default_install_hook_types
      [] OTHER -> <<PreCommit>>

\* C8: get_hook_types returns the explicit hook types when there are any, else
\* the configuration's default_install_hook_types when the configuration loads
\* and has some, else [pre-commit]; never the empty list; and install and
\* uninstall act on exactly that list.
C8_HookTypeResolution ==
    (call.fn \in {"get_hook_types", "install", "uninstall"} /\ call.returned)
        => /\ call.ret = Resolved(call.arg.project, call.arg.hook_types)
           /\ call.ret # <<>>

\* An uninstall without explicit hook types has acted on the configuration's
\* default hook types.
C8_Witness ==
    /\ call.fn = "uninstall"
    /\ call.returned
    /\ call.arg.hook_types = <<>>
    /\ call.arg.project = ProjectOk(TRUE, <<PrePush>>)
    /\ call.ret = <<PrePush>>

\* core.hooksPath holds a value that is not empty.
HooksPathIsSet(hp) == hp.set /\ \E i \in DOMAIN hp.value : hp.value[i] \notin Whitespace

\* C9: with core.hooksPath set to a non-empty value, install answers Failure,
\* whatever its hook types and flags, and has touched nothing: the hooks
\* directory is not created, no file in it is written, renamed or chmod-ed, and
\* no hook environment is initialized.
C9_RefusesHooksPath ==
    (last.op = "install" /\ HooksPathIsSet(last.args.hp))
        => /\ last.result = "Failure"
           /\ CurFs = last.pre
           /\ ~last.envs

\* An install asked to overwrite and to install the hooks has refused, in a
\* repository that has a foreign hook and no hooks of the manager's.
C9_Witness ==
    /\ last.op = "install"
    /\ HooksPathIsSet(last.args.hp)
    /\ last.args.overwrite
    /\ last.args.install_hooks
    /\ last.args.project.ok
    /\ last.result = "Failure"
    /\ \E t \in HookTypes : Unmanaged(hook[t])

\* C10: has_hooks_path_set answers true exactly when `git config --get
\* core.hooksPath` exits 0 with output that is not empty once trimmed; for every
\* other exit status it answers false, not an error.
C10_HooksPathSet ==
    (call.fn = "has_hooks_path_set" /\ call.returned /\ call.arg.spawned)
        => /\ call.ret.ok
           /\ call.ret.value =
                ( /\ call.arg.status = 0
                  /\ \E i \in DOMAIN call.arg.stdout : call.arg.stdout[i] \notin Whitespace )

\* has_hooks_path_set has answered false for a git that printed a path and
\* exited with 128.
C10_Witness ==
    /\ call.fn = "has_hooks_path_set"
    /\ call.returned
    /\ call.arg = Output(128, <<"h", "\n">>)
    /\ call.ret = Ok(FALSE)

\* C11: is_dirty answers false exactly when `git diff --quiet` exits 0, true
\* exactly when it exits 1, and an error for every other outcome (another exit
\* code, or no exit code at all): never true or false for those.
C11_IsDirtyThreeWay ==
    (call.fn = "is_dirty" /\ call.returned /\ call.arg.spawned)
        => /\ (call.ret = Ok(FALSE)) <=> (call.arg.status = 0)
           /\ (call.ret = Ok(TRUE)) <=> (call.arg.status = 1)
           /\ (call.arg.status \notin {0, 1}) => (call.ret = Err)

\* is_dirty has answered with an error for a git that exited with 128.
C11_Witness ==
    /\ call.fn = "is_dirty"
    /\ call.returned
    /\ call.arg = Output(128, <<>>)
    /\ call.ret = Err

\* C12: the list zsplit returns (for intent_to_add_files, get_changed_files,
\* get_all_files and get_staged_files) has no empty-string element, whatever
\* the bytes the tool printed, and is empty for an output that is empty or all
\* whitespace.
C12_NoEmptyElement ==
    (call.fn = "zsplit" /\ call.returned)
        => /\ \A i \in DOMAIN call.ret : call.ret[i] # <<>>
           /\ (\A i \in DOMAIN call.arg : call.arg[i] \in Whitespace) => call.ret = <<>>

\* The name begins with the characters of prefix.
BeginsWith(name, prefix) == \E k \in 0..Len(name) : SubSeq(name, 1, k) = prefix

\* C16: the environment git_cmd hands to a git command holds a variable exactly
\* when the ambient environment holds it and its name does not start with
\* GIT_, or starts with GIT_CONFIG_KEY_ or GIT_CONFIG_VALUE_, or is one of the
\* allow-listed names; it holds it with its ambient value; and the command
\* begins with `-c core.useBuiltinFSMonitor=false`.
C16_SanitizedEnv ==
    (call.fn = "git_cmd" /\ call.returned /\ call.ret.ok)
        => /\ \A name \in AmbientNames, v \in EnvValues :
                <<name, v>> \in call.ret.envs
                    <=> /\ <<name, v>> \in call.arg.vars_
                        /\ \/ ~BeginsWith(name, GIT_PREFIX)
                           \/ BeginsWith(name, GIT_CONFIG_KEY_PREFIX)
                           \/ BeginsWith(name, GIT_CONFIG_VALUE_PREFIX)
                           \/ name \in keep
           /\ call.ret.envs \subseteq call.arg.vars_
           /\ Len(call.ret.args) >= 2
           /\ SubSeq(call.ret.args, 1, 2) = <<"-c", "core.useBuiltinFSMonitor=false">>

\* git_cmd has built a command for an environment with GIT_DIR and GIT_SSH set:
\* the first is gone, the second is kept with its value.
C16_Witness ==
    /\ call.fn = "git_cmd"
    /\ call.returned
    /\ call.ret.ok
    /\ call.arg.vars_ = {<<GIT_PREFIX \o <<"D", "I", "R">>, "1">>,
                         <<GIT_PREFIX \o <<"S", "S", "H">>, "1">>}
    /\ call.ret.envs = {<<GIT_PREFIX \o <<"S", "S", "H">>, "1">>}

\* The commands clone_repo has issued so far, in order (a command that could
\* not be spawned was not issued), and those among them that failed.
Issued == SelectSeq(clone.log, LAMBDA e : e.outcome # "not spawned")

IssuedIn(phase) == {k \in DOMAIN Issued : Issued[k].phase = phase}

FailedIn(phase) == {k \in DOMAIN clone.log : clone.log[k].phase = phase /\ clone.log[k].outcome # "ok"}

\* C13: when the three shallow steps succeed, no command of the full
\* acquisition is ever issued; a command of the full acquisition is issued only
\* after a shallow step has failed.
C13_ShallowOnly ==
    /\ (\A c \in DOMAIN Commands.shallow :
            \E k \in DOMAIN clone.log :
                clone.log[k].cmd = Commands.shallow[c] /\ clone.log[k].outcome = "ok")
        => IssuedIn("full") = {}
    /\ \A k \in IssuedIn("full") :
            \E j \in 1..(k - 1) : Issued[j].phase = "shallow" /\ Issued[j].outcome = "failed"

\* clone_repo has returned success after the three shallow commands, and only
\* the two commands of init_repo before them.
C13_Witness ==
    /\ clone.phase = "done"
    /\ clone.result = "Ok"
    /\ Len(clone.log) = 5
    /\ \A k \in DOMAIN clone.log : clone.log[k].outcome = "ok"
    /\ clone.log[5].cmd = Commands.shallow[3]

\* C14: the failure of a shallow step is not returned: the full acquisition
\* starts, once, and its result is clone_repo's.  clone_repo returns an error
\* exactly when init_repo fails, or a shallow step and then a full step fail.
C14_Fallback ==
    /\ (FailedIn("shallow") # {} /\ clone.found)
        => /\ clone.phase \in {"full", "done"}
           /\ Cardinality(FailedIn("shallow")) = 1
           /\ clone.warned = 1
           /\ clone.phase = "done"
                => /\ Cardinality({k \in DOMAIN clone.log :
                                        clone.log[k].cmd = Commands.full[1]}) = 1
                   /\ (clone.result = "Ok") <=> (FailedIn("full") = {})
    /\ \A c \in DOMAIN Commands.full :
            Cardinality({k \in DOMAIN clone.log : clone.log[k].cmd = Commands.full[c]}) <= 1
    /\ clone.phase = "done"
        => /\ clone.result \in {"Ok", "Err"}
           /\ (clone.result = "Err")
                <=> \/ FailedIn("init") # {}
                    \/ FailedIn("shallow") # {} /\ FailedIn("full") # {}

\* clone_repo has returned success although the shallow checkout failed.
C14_Witness ==
    /\ clone.phase = "done"
    /\ clone.result = "Ok"
    /\ \E k \in DOMAIN clone.log :
            clone.log[k].cmd = Commands.shallow[2] /\ clone.log[k].outcome = "failed"
    /\ clone.log[Len(clone.log)].cmd = Commands.full[3]

\* The checkouts that succeeded, as positions in the log.
Checkouts ==
    {k \in DOMAIN clone.log :
        /\ clone.log[k].outcome = "ok"
        /\ clone.log[k].cmd \in {Commands.shallow[2], Commands.full[2]}}

\* C15: when clone_repo returns success the working copy is at the requested
\* revision: the last checkout that succeeded is either that of FETCH_HEAD,
\* right after a successful depth-1 fetch of the revision, or that of the
\* revision by name, right after a successful full fetch.
C15_CheckedOut ==
    (clone.phase = "done" /\ clone.result = "Ok")
        => /\ clone.wc.head = clone.rev
           /\ Checkouts # {}
           /\ LET k == CHOOSE c \in Checkouts : \A d \in Checkouts : d <= c
              IN  /\ k > 1
                  /\ clone.log[k - 1].outcome = "ok"
                  /\ \/ /\ clone.log[k].cmd = Commands.shallow[2]
                        /\ clone.log[k - 1].cmd = Commands.shallow[1]
                        /\ clone.wc.fetch_head = clone.rev
                     \/ /\ clone.log[k].cmd = Commands.full[2]
                        /\ clone.log[k - 1].cmd = Commands.full[1]

\* clone_repo has returned success after a shallow phase that failed once its
\* own checkout had succeeded.
C15_Witness ==
    /\ clone.phase = "done"
    /\ clone.result = "Ok"
    /\ clone.wc.head = clone.rev
    /\ \E k \in DOMAIN clone.log :
            clone.log[k].cmd = Commands.shallow[2] /\ clone.log[k].outcome = "ok"
    /\ \E k \in DOMAIN clone.log :
            clone.log[k].cmd = Commands.shallow[3] /\ clone.log[k].outcome = "failed"

\* C18: from a hooks directory without .legacy files, whatever installs,
\* uninstalls and edits of the hook file follow, hooks_dir/<type>.legacy never
\* holds manager-owned content; the file an uninstall restores is unmanaged;
\* and a second uninstall of the same type changes nothing.
C18_LegacyUnmanaged ==
    [][\A t \in HookTypes :
        /\ legacy'[t].exists => ~ManagerOwned(legacy'[t])
        /\ ( /\ last'.op = "uninstall"
             /\ Processed(last', t)
             /\ ManagerOwned(hook[t])
             /\ legacy[t].exists )
           => Unmanaged(hook'[t])
        /\ ( /\ last.op = "uninstall"
             /\ Processed(last, t)
             /\ last'.op = "uninstall"
             /\ Reached(last', t) )
           => /\ hook'[t] = hook[t]
              /\ legacy'[t] = legacy[t]
      ]_vars

\* An uninstall has removed the manager's script and put back the .legacy
\* file, a script of the user's without a marker.
C18_Witness ==
    \E t \in HookTypes :
        /\ last.op = "uninstall"
        /\ Processed(last, t)
        /\ ManagerOwned(last.pre.hook[t])
        /\ last.pre.legacy[t] \in ForeignScripts
        /\ Unmanaged(hook[t])
        /\ hook[t] \in ForeignScripts

\* The install recorded in l got past the rename of its step for hook type t:
\* the step was reached, and no system call failed before or at the rename.
PastRename(l, t) ==
    /\ l.fault.stage \notin {"git", "mkdir"}
    /\ \E i \in 1..Len(l.types) :
        /\ l.types[i] = t
        /\ i <= l.done + 1
        /\ ~(l.fault.at = i /\ l.fault.stage = "probe")

\* C17: an install without overwrite over an unmanaged script B (a file that
\* is not empty) keeps the
\* bytes of B at exactly one of hooks_dir/<type> and hooks_dir/<type>.legacy
\* at every point after the rename, also when a later step fails; such a
\* failure leaves B at .legacy, and the successful install and the uninstall
\* that follow put B back at hooks_dir/<type>.
C17_FailureKeepsBackup ==
    [][\A t \in HookTypes :
        /\ ( /\ last'.op = "install"
             /\ ~last'.args.overwrite
             /\ Unmanaged(hook[t])
             /\ hook[t].bytes # <<>>
             /\ PastRename(last', t) )
           => /\ (hook'[t].exists /\ hook'[t].bytes = hook[t].bytes)
                    # (legacy'[t].exists /\ legacy'[t].bytes = hook[t].bytes)
              /\ last'.result = "Err" => legacy'[t] = hook[t]
        /\ ( /\ last.op = "install"
             /\ last.result = "Success"
             /\ Processed(last, t)
             /\ last.stranded[t].exists
             /\ last'.op = "uninstall"
             /\ last'.result = "Success"
             /\ Processed(last', t) )
           => /\ hook'[t].exists
              /\ hook'[t].bytes = last.stranded[t].bytes
      ]_vars

\* The types of a command, without those the system call that failed kept it
\* from: all of them, or those up to the step that failed.
Started(l) ==
    IF l.fault.stage \in {"git", "mkdir"} THEN 0
    ELSE IF l.result = "Err" /\ l.done < Len(l.types) THEN l.done + 1
    ELSE Len(l.types)

\* A system call of the i-th step of the command recorded in l fails: any call
\* of an install step, the look at the hook file in an uninstall step, or the
\* restoring of the .legacy file when the step has a hook of the manager's to
\* remove.
StepFails(l, i) ==
    /\ l.fault.at = i
    /\ \/ l.op = "install" /\ l.fault.stage \in {"probe", "open", "write", "torn", "chmod"}
       \/ l.op = "uninstall" /\ l.fault.stage = "probe"
       \/ l.op = "uninstall" /\ l.fault.stage = "restore"
            /\ ManagerOwned(l.pre.hook[l.types[i]])
            /\ \A j \in 1..(i - 1) : l.types[j] # l.types[i]

\* C19: an install or uninstall of several hook types handles them in list
\* order and touches only the two files of the type it is handling: when the
\* step for a type fails the command stops with an error, the types before it
\* keep their new state, and the files of the types after it, like those of
\* the types that are not in the list, are as they were.  (A type listed twice
\* is handled at each place: the types before the failing step are those other
\* than the type of that step.)
C19_Sequential ==
    (last.op \in {"install", "uninstall"})
        => /\ \A t \in HookTypes :
                (\A i \in 1..Started(last) : last.types[i] # t)
                    => hook[t] = last.pre.hook[t] /\ legacy[t] = last.pre.legacy[t]
           /\ \A i \in 1..Len(last.types) :
                StepFails(last, i)
                    => /\ last.result = "Err"
                       /\ last.done = i - 1
           /\ \A i \in 1..last.done :
                (\A j \in (last.done + 1)..Started(last) : last.types[j] # last.types[i])
                    => IF last.op = "install"
                       THEN /\ ManagerOwned(hook[last.types[i]])
                            /\ hook[last.types[i]].mode = ModeExec
                       ELSE ~ManagerOwned(hook[last.types[i]])

\* An install of pre-push and pre-commit has failed at its second step: the
\* script of the first type is installed, over the backup of the user's.
C19_Witness ==
    /\ last.op = "install"
    /\ last.types = <<PrePush, PreCommit>>
    /\ last.result = "Err"
    /\ last.fault = Fault("write", 2)
    /\ Unmanaged(last.pre.hook[PrePush])
    /\ ManagerOwned(hook[PrePush])
    /\ legacy[PrePush] = last.pre.hook[PrePush]

====
